---- MODULE Spec2Model ----
(***************************************************************************)
(* Model of rust-vanity/src/lib.rs: the seed generator, the match          *)
(* predicate and the VanitySearcher state machine (new, search_batch,      *)
(* stop, attempts).                                                        *)
(*                                                                         *)
(* Text is a sequence of character codes (ASCII), a u64 is a sequence of   *)
(* 8 bytes, least significant first, so that 64-bit arithmetic is exact.   *)
(* Option<T> is a sequence of length 0 (None) or 1 (Some).                 *)
(***************************************************************************)
EXTENDS Integers, Sequences, FiniteSets, TLC

VARIABLES
    phase,          \* "none": not constructed, "ready": a VanitySearcher exists, "panicked"
    vs,             \* the VanitySearcher struct (fields of lib.rs:72-80)
    sha256,         \* Sha256 restricted to the inputs the searcher can feed it
    build,          \* the build the code runs as: usize width and overflow checks
    newArgs,        \* history: the arguments VanitySearcher::new was called with
    lastOp,         \* the operation that was called last
    lastArg,        \* its argument (batch_size), 0 when it has none
    ret,            \* the Option<VanityResult> the last operation returned, if it was search_batch
    stopCalled,     \* history: stop() has been called on this searcher
    lastRead,       \* history: the value of the latest attempts() read
    fn,             \* the pure-function harness: inputs and outputs of one application
    fed,            \* history: the counters passed to generate_seed_from_counter, in order
    results,        \* history: the VanityResults search_batch returned, in order
    peer,           \* a second VanitySearcher, with the history of what it returned
    inflight        \* the search_batch call in progress, when the loop is taken step by step

vars == <<phase, vs, sha256, build, newArgs, lastOp, lastArg, ret, stopCalled, lastRead, fn,
          fed, results, peer, inflight>>

-----------------------------------------------------------------------------
(* Bounds of the model. *)

\* the seed generator is applied to the counters 0..MaxCounter and to a few large ones
MaxCounter == 64
\* the number of consecutive counters whose seeds are collected
RangeLen == 10000
\* the match test is applied to every text of up to MaxTextLen characters and every
\* pattern of up to MaxPatternLen characters over MatchAlphabet
MaxTextLen == 3
MaxPatternLen == 2
\* count never exceeds MaxCount: search_batch(n) is explored on an active searcher
\* while count + n <= MaxCount
MaxCount == 2
\* the largest batch_size explored
MaxBatch == 2

-----------------------------------------------------------------------------
(* Option<T> *)

None == <<>>
Some(x) == <<x>>
IsSome(o) == Len(o) = 1
Unwrap(o) == o[1]

-----------------------------------------------------------------------------
(* u64 arithmetic on 8 little-endian bytes *)

U64_BYTES == 8

\* a natural number below 2^31 as a u64
ToU64(n) ==
    << n % 256, (n \div 256) % 256, (n \div 65536) % 256, (n \div 16777216) % 256,
       0, 0, 0, 0 >>

RECURSIVE AddCarry(_, _, _)
\* the carry into byte k of a + b
AddCarry(a, b, k) ==
    IF k = 1 THEN 0 ELSE (a[k - 1] + b[k - 1] + AddCarry(a, b, k - 1)) \div 256

\* byte k of (a + b) mod 2^64
AddByte(a, b, k) == (a[k] + b[k] + AddCarry(a, b, k)) % 256

\* a + b overflows 64 bits
AddOverflows(a, b) == AddCarry(a, b, U64_BYTES + 1) = 1

\* (a + b) mod 2^64
WrappingAdd(a, b) ==
    << AddByte(a, b, 1), AddByte(a, b, 2), AddByte(a, b, 3), AddByte(a, b, 4),
       AddByte(a, b, 5), AddByte(a, b, 6), AddByte(a, b, 7), AddByte(a, b, 8) >>

RECURSIVE Column(_, _, _, _)
\* sum over i in 1..n of a[i] * b[k + 1 - i]: column k of the schoolbook product
Column(a, b, k, n) ==
    IF n = 0 THEN 0 ELSE a[n] * b[k + 1 - n] + Column(a, b, k, n - 1)

RECURSIVE MulCarry(_, _, _)
\* the carry into byte k of a * b
MulCarry(a, b, k) ==
    IF k = 1 THEN 0 ELSE (Column(a, b, k - 1, k - 1) + MulCarry(a, b, k - 1)) \div 256

\* byte k of (a * b) mod 2^64
MulByte(a, b, k) == (Column(a, b, k, k) + MulCarry(a, b, k)) % 256

\* u64::wrapping_mul
WrappingMul(a, b) ==
    << MulByte(a, b, 1), MulByte(a, b, 2), MulByte(a, b, 3), MulByte(a, b, 4),
       MulByte(a, b, 5), MulByte(a, b, 6), MulByte(a, b, 7), MulByte(a, b, 8) >>

\* x >>= 8
Shr8(x) == << x[2], x[3], x[4], x[5], x[6], x[7], x[8], 0 >>

RECURSIVE Horner(_, _, _, _)
Horner(x, k, acc, m) ==
    IF k = 0 THEN acc ELSE Horner(x, k - 1, (acc * 256 + x[k]) % m, m)

\* the number made of the low n bytes of x, modulo m
ModBytes(x, n, m) == Horner(x, n, 0, m)

-----------------------------------------------------------------------------
(* generate_seed_from_counter *)

\* mutant: the alphabet with the letters I, O and l left in
ALPHANUMERIC_CHARS_AllLetters ==
    [i \in 1..26 |-> 64 + i] \o [i \in 1..26 |-> 96 + i] \o [i \in 1..10 |-> 47 + i]

\* b"ABCDEFGHJKLMNPQRSTUVWXYZabcdefghijkmnopqrstuvwxyz0123456789"
ALPHANUMERIC_CHARS ==
    << 65, 66, 67, 68, 69, 70, 71, 72,                    \* A-H
       74, 75, 76, 77, 78,                                \* J-N
       80, 81, 82, 83, 84, 85, 86, 87, 88, 89, 90,        \* P-Z
       97, 98, 99, 100, 101, 102, 103, 104, 105, 106, 107,  \* a-k
       109, 110, 111, 112, 113, 114, 115, 116, 117, 118, 119, 120, 121, 122,  \* m-z
       48, 49, 50, 51, 52, 53, 54, 55, 56, 57 >>          \* 0-9

\* 0x9E3779B97F4A7C15, least significant byte first
GoldenRatio == << 21, 124, 74, 127, 185, 121, 55, 158 >>

\* the usize widths (in bytes) of the targets the crate builds for: wasm32 and a 64-bit host
UsizeWidths == {4, 8}

\* mutant: the index is taken on all 8 bytes of the state, whatever the usize
IndexOf_FullWidth(state, usize) == ModBytes(state, U64_BYTES, Len(ALPHANUMERIC_CHARS))

\* `state as usize % ALPHANUMERIC_CHARS.len()`: the cast keeps the low usize bytes
IndexOf(state, usize) == ModBytes(state, usize, Len(ALPHANUMERIC_CHARS))

RECURSIVE SeedLoop(_, _, _, _, _)
\* the loop `for i in 0..8` from iteration i on
SeedLoop(i, seed, state1, state2, usize) ==
    IF i >= 8 THEN seed
    ELSE SeedLoop(i + 1,
                  [seed EXCEPT ![i + 1] = ALPHANUMERIC_CHARS[IndexOf(state1, usize) + 1],
                               ![i + 9] = ALPHANUMERIC_CHARS[IndexOf(state2, usize) + 1]],
                  Shr8(state1), Shr8(state2), usize)

\* mutant: the second half of the seed is taken from the counter itself
generate_seed_from_counter_NoHash(counter, usize) ==
    SeedLoop(0, <<0, 0, 0, 0, 0, 0, 0, 0, 0, 0, 0, 0, 0, 0, 0, 0>>, counter, counter, usize)

generate_seed_from_counter(counter, usize) ==
    SeedLoop(0, <<0, 0, 0, 0, 0, 0, 0, 0, 0, 0, 0, 0, 0, 0, 0, 0>>, counter, WrappingMul(counter, GoldenRatio), usize)

-----------------------------------------------------------------------------
(* Text helpers *)

\* char::to_lowercase on the ASCII range
LowerChar(c) == IF c >= 65 /\ c <= 90 THEN c + 32 ELSE c

\* str::to_lowercase
to_lowercase(t) == [i \in 1..Len(t) |-> LowerChar(t[i])]

\* str::starts_with
starts_with(t, p) == Len(p) <= Len(t) /\ SubSeq(t, 1, Len(p)) = p

\* str::ends_with
ends_with(t, s) == Len(s) <= Len(t) /\ SubSeq(t, Len(t) - Len(s) + 1, Len(t)) = s

maybe_bs58_aware_lowercase(pubkey, case_insensitive) ==
    IF case_insensitive THEN to_lowercase(pubkey) ELSE pubkey

\* String::from_utf8_lossy(&seed).to_string(): ASCII bytes are kept, any other
\* byte starts an ill-formed sequence here and becomes U+FFFD
from_utf8_lossy(bytes) == [i \in 1..Len(bytes) |-> IF bytes[i] < 128 THEN bytes[i] ELSE 65533]

-----------------------------------------------------------------------------
(* five8::encode_32: base58 of the digest, most significant byte first.    *)
(* The digests of the model are 2 bytes wide instead of 32.                *)

\* "123456789ABCDEFGHJKLMNPQRSTUVWXYZabcdefghijkmnopqrstuvwxyz"
BASE58_CHARS ==
    << 49, 50, 51, 52, 53, 54, 55, 56, 57,
       65, 66, 67, 68, 69, 70, 71, 72,
       74, 75, 76, 77, 78,
       80, 81, 82, 83, 84, 85, 86, 87, 88, 89, 90,
       97, 98, 99, 100, 101, 102, 103, 104, 105, 106, 107,
       109, 110, 111, 112, 113, 114, 115, 116, 117, 118, 119, 120, 121, 122 >>

RECURSIVE BigEndianValue(_)
BigEndianValue(bytes) ==
    IF bytes = <<>> THEN 0
    ELSE BigEndianValue(SubSeq(bytes, 1, Len(bytes) - 1)) * 256 + bytes[Len(bytes)]

RECURSIVE LeadingZeros(_)
LeadingZeros(bytes) ==
    IF bytes = <<>> \/ bytes[1] # 0 THEN 0 ELSE 1 + LeadingZeros(Tail(bytes))

RECURSIVE Base58Digits(_)
Base58Digits(v) ==
    IF v = 0 THEN <<>>
    ELSE Append(Base58Digits(v \div 58), BASE58_CHARS[(v % 58) + 1])

encode_32(bytes) ==
    [i \in 1..LeadingZeros(bytes) |-> BASE58_CHARS[1]] \o Base58Digits(BigEndianValue(bytes))

-----------------------------------------------------------------------------
(* MatchType and the match test of search_batch *)

Prefix(p) == [kind |-> "Prefix", prefix |-> p, suffix |-> <<>>]
Suffix(s) == [kind |-> "Suffix", prefix |-> <<>>, suffix |-> s]
Both(p, s) == [kind |-> "Both", prefix |-> p, suffix |-> s]

\* mutant: the patterns are stored as supplied, also in case-insensitive mode
NewMatchType_KeepsCase(prefix, suffix, case_insensitive) ==
    IF IsSome(prefix) /\ IsSome(suffix) THEN Both(Unwrap(prefix), Unwrap(suffix))
    ELSE IF IsSome(prefix) THEN Prefix(Unwrap(prefix))
    ELSE IF IsSome(suffix) THEN Suffix(Unwrap(suffix))
    ELSE Prefix(<<>>)

\* the `match (prefix, suffix)` of VanitySearcher::new
NewMatchType(prefix, suffix, case_insensitive) ==
    IF IsSome(prefix) /\ IsSome(suffix) THEN
        Both(IF case_insensitive THEN to_lowercase(Unwrap(prefix)) ELSE Unwrap(prefix),
             IF case_insensitive THEN to_lowercase(Unwrap(suffix)) ELSE Unwrap(suffix))
    ELSE IF IsSome(prefix) THEN
        Prefix(IF case_insensitive THEN to_lowercase(Unwrap(prefix)) ELSE Unwrap(prefix))
    ELSE IF IsSome(suffix) THEN
        Suffix(IF case_insensitive THEN to_lowercase(Unwrap(suffix)) ELSE Unwrap(suffix))
    ELSE Prefix(<<>>)

\* the `match &self.match_type` of search_batch
Matches(match_type, out_str_target_check) ==
    CASE match_type.kind = "Prefix" -> starts_with(out_str_target_check, match_type.prefix)
      [] match_type.kind = "Suffix" -> ends_with(out_str_target_check, match_type.suffix)
      [] match_type.kind = "Both" ->
            starts_with(out_str_target_check, match_type.prefix)
            /\ ends_with(out_str_target_check, match_type.suffix)

-----------------------------------------------------------------------------
(* The inputs the model draws from *)

\* base_pubkey: [u8; 32], owner_pubkey: [u8; 32]
PUBKEY_LEN == 32

\* keys of the right length, the short keys of tests::test_search_batch, a long key
BaseKeys == { [i \in 1..PUBKEY_LEN |-> 1], <<1, 2, 3>>, [i \in 1..(PUBKEY_LEN + 1) |-> 1] }
OwnerKeys == { [i \in 1..PUBKEY_LEN |-> 2], <<4, 5, 6>> }

\* prefix "AB", suffix "B"
Prefixes == { None, Some(<<65, 66>>) }
Suffixes == { None, Some(<<66>>) }

\* 0, 2^32 - 1 (the next counter does not fit 32 bits), 2^64 - 1 (the next counter
\* does not fit 64 bits)
Offsets == { ToU64(0),
             <<255, 255, 255, 255, 0, 0, 0, 0>>,
             <<255, 255, 255, 255, 255, 255, 255, 255>> }

\* the count_offsets of two searchers side by side: 0, 1, 2^64 - 1
PairOffsets == { ToU64(0), ToU64(1), <<255, 255, 255, 255, 255, 255, 255, 255>> }

\* the digests Sha256 may give; they encode to "AB", "ab" and "1A"
Digests == { <<2, 20>>, <<7, 156>>, <<0, 9>> }

\* overflow-checks on (debug profile) or off (release profile), on either target
Builds == [usize : UsizeWidths, overflow_checks : BOOLEAN]

\* mutant: the counter is the count alone
CounterAt_IgnoresOffset(count, count_offset) == ToU64(count)

\* the counter of the candidate tested when `count` candidates were tested before it
CounterAt(count, count_offset) == WrappingAdd(ToU64(count), count_offset)

\* the seeds of the counters the model reaches, computed once
SeedCache ==
    LET table == [c \in { CounterAt(k, o) : k \in 0..(MaxCount - 1),
                                             o \in Offsets \cup PairOffsets },
                  u \in UsizeWidths |-> generate_seed_from_counter(c, u)]
    IN  IF table = table THEN table ELSE table

\* generate_seed_from_counter(counter), looked up when it was computed before
SeedOf(counter, usize) ==
    IF <<counter, usize>> \in DOMAIN SeedCache
    THEN SeedCache[counter, usize]
    ELSE generate_seed_from_counter(counter, usize)

\* what a searcher with these keys and this offset can hash within the bound
HashInputs(base, owner, count_offset, usize) ==
    { <<base, SeedOf(CounterAt(k, count_offset), usize), owner>> : k \in 0..(MaxCount - 1) }

-----------------------------------------------------------------------------
(* VanitySearcher *)

NoSearcher ==
    [base_pubkey |-> <<>>, owner_pubkey |-> <<>>, match_type |-> Prefix(<<>>),
     case_insensitive |-> FALSE, count |-> 0, count_offset |-> ToU64(0),
     should_exit |-> FALSE]

VanityResult(address, seed, attempts) ==
    [address |-> address, seed |-> seed, attempts |-> attempts]

\* `slice.try_into().unwrap()` to [u8; 32] panics unless the slice has 32 bytes
TryIntoPanics(key) == Len(key) # PUBKEY_LEN

\* the struct VanitySearcher::new builds
NewSearcher(base_pubkey, owner_pubkey, prefix, suffix, case_insensitive, count_offset) ==
    [base_pubkey |-> base_pubkey,
     owner_pubkey |-> owner_pubkey,
     match_type |-> NewMatchType(prefix, suffix, case_insensitive),
     case_insensitive |-> case_insensitive,
     count |-> 0,
     count_offset |-> count_offset,
     should_exit |-> FALSE]

\* mutant: no candidate is ever reported
TestCandidate_NeverMatches(s, hash, b) ==
    [vs |-> [s EXCEPT !.count = @ + 1],
     ret |-> None,
     panic |-> FALSE,
     fed |-> <<CounterAt(s.count, s.count_offset)>>]

\* mutant: the count starts over once a match was found
TestCandidate_ResetsOnMatch(s, hash, b) ==
    LET counter == CounterAt(s.count, s.count_offset)
        seed == SeedOf(counter, b.usize)
        pubkey == encode_32(hash[<<s.base_pubkey, seed, s.owner_pubkey>>])
        out_str_target_check == maybe_bs58_aware_lowercase(pubkey, s.case_insensitive)
        matches == Matches(s.match_type, out_str_target_check)
    IN  [vs |-> [s EXCEPT !.count = IF matches THEN 0 ELSE @ + 1],
         ret |-> IF matches
                 THEN Some(VanityResult(pubkey, from_utf8_lossy(seed), s.count + 1))
                 ELSE None,
         panic |-> FALSE,
         fed |-> <<counter>>]

\* mutant: a candidate that matches is not counted
TestCandidate_RetestsMatch(s, hash, b) ==
    LET counter == CounterAt(s.count, s.count_offset)
        seed == SeedOf(counter, b.usize)
        pubkey == encode_32(hash[<<s.base_pubkey, seed, s.owner_pubkey>>])
        out_str_target_check == maybe_bs58_aware_lowercase(pubkey, s.case_insensitive)
        matches == Matches(s.match_type, out_str_target_check)
    IN  [vs |-> IF matches THEN s ELSE [s EXCEPT !.count = @ + 1],
         ret |-> IF matches
                 THEN Some(VanityResult(pubkey, from_utf8_lossy(seed), s.count + 1))
                 ELSE None,
         panic |-> FALSE,
         fed |-> <<counter>>]

\* mutant: the Result carries the text that was compared
TestCandidate_ReportsFolded(s, hash, b) ==
    LET counter == CounterAt(s.count, s.count_offset)
        seed == SeedOf(counter, b.usize)
        pubkey == encode_32(hash[<<s.base_pubkey, seed, s.owner_pubkey>>])
        out_str_target_check == maybe_bs58_aware_lowercase(pubkey, s.case_insensitive)
    IN  [vs |-> [s EXCEPT !.count = @ + 1],
         ret |-> IF Matches(s.match_type, out_str_target_check)
                 THEN Some(VanityResult(out_str_target_check, from_utf8_lossy(seed),
                                        s.count + 1))
                 ELSE None,
         panic |-> FALSE,
         fed |-> <<counter>>]

\* mutant: the Result carries the count read before the increment
TestCandidate_StaleAttempts(s, hash, b) ==
    LET counter == CounterAt(s.count, s.count_offset)
        seed == SeedOf(counter, b.usize)
        pubkey == encode_32(hash[<<s.base_pubkey, seed, s.owner_pubkey>>])
        out_str_target_check == maybe_bs58_aware_lowercase(pubkey, s.case_insensitive)
    IN  [vs |-> [s EXCEPT !.count = @ + 1],
         ret |-> IF Matches(s.match_type, out_str_target_check)
                 THEN Some(VanityResult(pubkey, from_utf8_lossy(seed), s.count))
                 ELSE None,
         panic |-> FALSE,
         fed |-> <<counter>>]

\* one iteration of the loop of search_batch on a searcher that is not stopped:
\* the candidate is derived, count is incremented, the candidate is tested; fed is
\* the counter generate_seed_from_counter was called with
TestCandidate(s, hash, b) ==
    LET counter == CounterAt(s.count, s.count_offset)
        seed == SeedOf(counter, b.usize)
        pubkey_bytes == hash[<<s.base_pubkey, seed, s.owner_pubkey>>]
        pubkey == encode_32(pubkey_bytes)
        out_str_target_check == maybe_bs58_aware_lowercase(pubkey, s.case_insensitive)
        counted == [s EXCEPT !.count = @ + 1]
    IN  [vs |-> counted,
         ret |-> IF Matches(s.match_type, out_str_target_check)
                 THEN Some(VanityResult(pubkey, from_utf8_lossy(seed), counted.count))
                 ELSE None,
         panic |-> FALSE,
         fed |-> <<counter>>]

RECURSIVE BatchLoop_FinishesBatch(_, _, _, _)
\* mutant: after a match the rest of the batch is still derived and counted
BatchLoop_FinishesBatch(s, left, hash, b) ==
    IF left = 0 THEN [vs |-> s, ret |-> None, panic |-> FALSE, fed |-> <<>>]
    ELSE IF s.should_exit THEN [vs |-> s, ret |-> None, panic |-> FALSE, fed |-> <<>>]
    ELSE IF b.overflow_checks /\ AddOverflows(ToU64(s.count), s.count_offset)
         THEN [vs |-> s, ret |-> None, panic |-> TRUE, fed |-> <<>>]
    ELSE LET t == TestCandidate(s, hash, b)
             rest == BatchLoop_FinishesBatch(t.vs, left - 1, hash, b)
         IN  [vs |-> rest.vs,
              ret |-> IF IsSome(t.ret) THEN t.ret ELSE rest.ret,
              panic |-> rest.panic,
              fed |-> t.fed \o rest.fed]

RECURSIVE BatchLoop(_, _, _, _)
\* `for _ in 0..batch_size` with `left` iterations to go
BatchLoop(s, left, hash, b) ==
    IF left = 0 THEN [vs |-> s, ret |-> None, panic |-> FALSE, fed |-> <<>>]
    ELSE IF s.should_exit THEN [vs |-> s, ret |-> None, panic |-> FALSE, fed |-> <<>>]
    ELSE IF b.overflow_checks /\ AddOverflows(ToU64(s.count), s.count_offset)
         THEN [vs |-> s, ret |-> None, panic |-> TRUE, fed |-> <<>>]
    ELSE LET t == TestCandidate(s, hash, b)
         IN  IF IsSome(t.ret) THEN t
             ELSE LET rest == BatchLoop(t.vs, left - 1, hash, b)
                  IN  [rest EXCEPT !.fed = t.fed \o @]

\* mutant: the loop body runs once before the batch size is looked at
search_batch_AtLeastOnce(s, batch_size, hash, b) ==
    BatchLoop(s, IF batch_size = 0 THEN 1 ELSE batch_size, hash, b)

search_batch(s, batch_size, hash, b) == BatchLoop(s, batch_size, hash, b)

\* mutant: the iteration does not look at should_exit
LoopIteration_NoExitCheck(s, hash, b) ==
    LET r == BatchLoop([s EXCEPT !.should_exit = FALSE], 1, hash, b)
    IN  [vs |-> [r.vs EXCEPT !.should_exit = s.should_exit],
         ret |-> r.ret, panic |-> r.panic, fed |-> r.fed,
         done |-> r.panic \/ IsSome(r.ret)]

\* one iteration of `for _ in 0..batch_size`; done: the iteration returned from
\* search_batch (should_exit was set, a match was found) or panicked
LoopIteration(s, hash, b) ==
    LET r == BatchLoop(s, 1, hash, b)
    IN  [vs |-> r.vs, ret |-> r.ret, panic |-> r.panic, fed |-> r.fed,
         done |-> s.should_exit \/ r.panic \/ IsSome(r.ret)]

\* mutant: stop() also clears the count
stop_ClearsCount(s) == [s EXCEPT !.should_exit = TRUE, !.count = 0]

\* mutant: stop() flips the flag
stop_Toggles(s) == [s EXCEPT !.should_exit = ~@]

\* mutant: stop() leaves the flag as it is
stop_Forgets(s) == s

stop(s) == [s EXCEPT !.should_exit = TRUE]

attempts(s) == s.count

-----------------------------------------------------------------------------
(* The state machine *)

\* no function of the harness is being applied
NoFn == <<>>

NoArgs ==
    [base_pubkey |-> <<>>, owner_pubkey |-> <<>>, prefix |-> None, suffix |-> None,
     case_insensitive |-> FALSE, count_offset |-> ToU64(0)]

\* no second searcher
NoPeer == [phase |-> "none", vs |-> NoSearcher, ret |-> None, results |-> <<>>]

\* no search_batch call is in progress
NoCall == [active |-> FALSE, batch_size |-> 0, left |-> 0]

\* no VanitySearcher was constructed yet
NotConstructed ==
    /\ phase = "none"
    /\ vs = NoSearcher
    /\ sha256 = <<>>
    /\ newArgs = NoArgs
    /\ lastOp = "init"
    /\ lastArg = 0
    /\ ret = None
    /\ stopCalled = FALSE
    /\ lastRead = None
    /\ fed = <<>>
    /\ results = <<>>
    /\ peer = NoPeer
    /\ inflight = NoCall

Init ==
    /\ NotConstructed
    /\ build \in Builds
    /\ fn = NoFn

\* VanitySearcher::new: the match type is built first, then the keys are converted
New(base, owner, prefix, suffix, ci, offset) ==
    /\ phase = "none"
    /\ newArgs' = [base_pubkey |-> base, owner_pubkey |-> owner, prefix |-> prefix,
                   suffix |-> suffix, case_insensitive |-> ci, count_offset |-> offset]
    /\ lastOp' = "new"
    /\ lastArg' = 0
    /\ ret' = None
    /\ IF TryIntoPanics(base) \/ TryIntoPanics(owner)
       THEN /\ phase' = "panicked"
            /\ UNCHANGED <<vs, sha256>>
       ELSE /\ phase' = "ready"
            /\ vs' = NewSearcher(base, owner, prefix, suffix, ci, offset)
            /\ sha256' \in [HashInputs(base, owner, offset, build.usize) -> Digests]
    /\ UNCHANGED <<build, stopCalled, lastRead, fn, fed, results, peer, inflight>>

\* the searcher, the return value and the histories after a search_batch call with
\* outcome r
Outcome(r) ==
    /\ vs' = r.vs
    /\ ret' = r.ret
    /\ phase' = IF r.panic THEN "panicked" ELSE "ready"
    /\ fed' = fed \o r.fed
    /\ results' = IF IsSome(r.ret) THEN Append(results, Unwrap(r.ret)) ELSE results

SearchBatch(batch_size) ==
    /\ phase = "ready"
    /\ vs.should_exit \/ vs.count + batch_size <= MaxCount
    /\ Outcome(search_batch(vs, batch_size, sha256, build))
    /\ lastOp' = "search_batch"
    /\ lastArg' = batch_size
    /\ UNCHANGED <<sha256, build, newArgs, stopCalled, lastRead, fn, peer, inflight>>

Stop ==
    /\ phase = "ready"
    /\ vs' = stop(vs)
    /\ stopCalled' = TRUE
    /\ lastOp' = "stop"
    /\ lastArg' = 0
    /\ ret' = None
    /\ UNCHANGED <<phase, sha256, build, newArgs, lastRead, fn, fed, results, peer, inflight>>

Attempts ==
    /\ phase = "ready"
    /\ lastRead' = Some(attempts(vs))
    /\ lastOp' = "attempts"
    /\ lastArg' = 0
    /\ ret' = None
    /\ UNCHANGED <<phase, vs, sha256, build, newArgs, stopCalled, fn, fed, results, peer,
                   inflight>>

Construct ==
    \E base \in BaseKeys, owner \in OwnerKeys, prefix \in Prefixes, suffix \in Suffixes,
       ci \in BOOLEAN, offset \in Offsets :
        New(base, owner, prefix, suffix, ci, offset)

Search == \E batch_size \in 0..MaxBatch : SearchBatch(batch_size)

Next == Construct \/ Search \/ Stop \/ Attempts

Spec == Init /\ [][Next]_vars

-----------------------------------------------------------------------------
(* The searcher of tests::test_search_batch: a case-sensitive prefix, no suffix,   *)
(* count_offset = 0, driven by a loop that calls search_batch again and again.     *)

\* prefixes "AB", "a", "1"
TestPrefixes == { Some(<<65, 66>>), Some(<<97>>), Some(<<49>>) }

ConstructForTest ==
    \E base \in BaseKeys, owner \in OwnerKeys, prefix \in TestPrefixes :
        New(base, owner, prefix, None, FALSE, ToU64(0))

\* the body of the test's loop: a call with a positive batch size
SearchPositive == \E batch_size \in 1..MaxBatch : SearchBatch(batch_size)

NextLive == ConstructForTest \/ Search \/ Stop \/ Attempts

\* a search_batch call with a positive batch size can test a candidate
CanSearch == phase = "ready" /\ ~vs.should_exit /\ vs.count < MaxCount

\* The loop of the test never stops calling search_batch: a call that stays possible
\* is eventually made. CanSearch implies ENABLED <<SearchPositive>>_vars, so this is
\* implied by WF_vars(SearchPositive).
SpecLive ==
    Init /\ [][NextLive]_vars /\ ([]<>(~CanSearch) \/ []<><<SearchPositive>>_vars)

-----------------------------------------------------------------------------
(* Two VanitySearchers with the same keys and the same prefix and their own         *)
(* count_offset, each in its own worker: their search_batch calls interleave.       *)

\* the digests Sha256 may give here; they encode to "AB" and "1A"
PairDigests == { <<2, 20>>, <<0, 9>> }

\* the wasm32 build, with and without overflow checks
InitPair ==
    /\ NotConstructed
    /\ build \in { b \in Builds : b.usize = 4 }
    /\ fn = NoFn

\* VanitySearcher::new in both workers; Sha256 is one function for both
NewPair(base, owner, prefix, offset, peer_offset) ==
    /\ phase = "none"
    /\ newArgs' = [base_pubkey |-> base, owner_pubkey |-> owner, prefix |-> prefix,
                   suffix |-> None, case_insensitive |-> FALSE, count_offset |-> offset]
    /\ lastOp' = "new"
    /\ lastArg' = 0
    /\ ret' = None
    /\ phase' = "ready"
    /\ vs' = NewSearcher(base, owner, prefix, None, FALSE, offset)
    /\ peer' = [phase |-> "ready",
                vs |-> NewSearcher(base, owner, prefix, None, FALSE, peer_offset),
                ret |-> None,
                results |-> <<>>]
    /\ sha256' \in [{ <<base, SeedOf(CounterAt(k, o), build.usize), owner>> :
                         k \in 0..(MaxCount - 1), o \in {offset, peer_offset} }
                       -> PairDigests]
    /\ UNCHANGED <<build, stopCalled, lastRead, fn, fed, results, inflight>>

\* both searchers get the same valid keys and the same prefix
ConstructPair ==
    \E base \in { k \in BaseKeys : ~TryIntoPanics(k) },
       owner \in { k \in OwnerKeys : ~TryIntoPanics(k) },
       prefix \in Prefixes, offset \in PairOffsets, peer_offset \in PairOffsets :
        NewPair(base, owner, prefix, offset, peer_offset)

\* the second searcher and the history of its Results after a search_batch call with
\* outcome r
PeerOutcome(r) ==
    peer' = [phase |-> IF r.panic THEN "panicked" ELSE "ready",
             vs |-> r.vs,
             ret |-> r.ret,
             results |-> IF IsSome(r.ret) THEN Append(peer.results, Unwrap(r.ret))
                         ELSE peer.results]

\* search_batch of the second searcher
PeerSearchBatch(batch_size) ==
    /\ peer.phase = "ready"
    /\ peer.vs.count + batch_size <= MaxCount
    /\ PeerOutcome(search_batch(peer.vs, batch_size, sha256, build))
    /\ lastOp' = "peer.search_batch"
    /\ lastArg' = batch_size
    /\ UNCHANGED <<phase, vs, sha256, build, newArgs, ret, stopCalled, lastRead, fn, fed,
                   results, inflight>>

PeerSearch == \E batch_size \in 0..MaxBatch : PeerSearchBatch(batch_size)

NextPair == ConstructPair \/ Search \/ PeerSearch

SpecPair == InitPair /\ [][NextPair]_vars

-----------------------------------------------------------------------------
(* search_batch taken one loop iteration at a time, with stop() free to take effect *)
(* between two iterations.                                                          *)

\* a searcher with valid keys and a case-sensitive prefix or none
ConstructForSteps ==
    \E base \in { k \in BaseKeys : ~TryIntoPanics(k) },
       owner \in { k \in OwnerKeys : ~TryIntoPanics(k) },
       prefix \in Prefixes, offset \in Offsets :
        New(base, owner, prefix, None, FALSE, offset)

\* search_batch(batch_size) is called: the loop is about to start
BeginBatch(batch_size) ==
    /\ phase = "ready"
    /\ ~inflight.active
    /\ vs.should_exit \/ vs.count + batch_size <= MaxCount
    /\ inflight' = [active |-> TRUE, batch_size |-> batch_size, left |-> batch_size]
    /\ lastOp' = "search_batch.call"
    /\ lastArg' = batch_size
    /\ ret' = None
    /\ UNCHANGED <<phase, vs, sha256, build, newArgs, stopCalled, lastRead, fn, fed, results,
                   peer>>

\* the effect of one loop iteration with outcome r
IterationOutcome(r) ==
    /\ vs' = r.vs
    /\ fed' = fed \o r.fed
    /\ IF r.done
       THEN /\ ret' = r.ret
            /\ phase' = IF r.panic THEN "panicked" ELSE "ready"
            /\ results' = IF IsSome(r.ret) THEN Append(results, Unwrap(r.ret)) ELSE results
            /\ inflight' = [inflight EXCEPT !.active = FALSE]
            /\ lastOp' = "search_batch"
       ELSE /\ inflight' = [inflight EXCEPT !.left = @ - 1]
            /\ lastOp' = "search_batch.iteration"
            /\ UNCHANGED <<ret, phase, results>>

\* the next step of the call in progress: the loop is over and None is returned, or
\* one more iteration runs
Iterate ==
    /\ phase = "ready"
    /\ inflight.active
    /\ IF inflight.left = 0
       THEN /\ ret' = None
            /\ inflight' = [inflight EXCEPT !.active = FALSE]
            /\ lastOp' = "search_batch"
            /\ UNCHANGED <<vs, fed, phase, results>>
       ELSE IterationOutcome(LoopIteration(vs, sha256, build))
    /\ UNCHANGED <<sha256, build, newArgs, lastArg, stopCalled, lastRead, fn, peer>>

Begin == \E batch_size \in 0..MaxBatch : BeginBatch(batch_size)

NextSteps == ConstructForSteps \/ Begin \/ Iterate \/ Stop

SpecSteps == Init /\ [][NextSteps]_vars

-----------------------------------------------------------------------------
(* generate_seed_from_counter applied to one counter *)

\* 0..MaxCounter, 10^9, 2^32 - 1, 2^32, 2^32 + 49, 2^64 - 1
SeedCounters ==
    { ToU64(n) : n \in 0..MaxCounter }
    \cup { ToU64(1000000000),
           <<255, 255, 255, 255, 0, 0, 0, 0>>,
           <<0, 0, 0, 0, 1, 0, 0, 0>>,
           <<49, 0, 0, 0, 1, 0, 0, 0>>,
           <<255, 255, 255, 255, 255, 255, 255, 255>> }

InitSeed ==
    /\ NotConstructed
    /\ build \in Builds
    /\ fn \in [counter : SeedCounters, seed : {None}]

GenerateSeed ==
    /\ fn.seed = None
    /\ fn' = [fn EXCEPT !.seed = Some(generate_seed_from_counter(fn.counter, build.usize))]
    /\ UNCHANGED <<phase, vs, sha256, build, newArgs, lastOp, lastArg, ret, stopCalled,
                   lastRead, fed, results, peer, inflight>>

SpecSeed == InitSeed /\ [][GenerateSeed]_vars

-----------------------------------------------------------------------------
(* generate_seed_from_counter applied to consecutive counters, the seeds collected *)

\* 0 and 10^9
RangeStarts == { ToU64(0), ToU64(1000000000) }

InitRange ==
    /\ NotConstructed
    /\ build \in { b \in Builds : ~b.overflow_checks }
    /\ fn \in [start : RangeStarts, n : {0}, seeds : {{}}]

\* the seeds of the next counters of the range, 250 at a time, are generated and
\* collected
CollectSeed ==
    /\ fn.n < RangeLen
    /\ LET upto == IF fn.n + 250 <= RangeLen THEN fn.n + 250 ELSE RangeLen
       IN  fn' = [fn EXCEPT
                    !.n = upto,
                    !.seeds = @ \cup { generate_seed_from_counter(
                                           WrappingAdd(fn.start, ToU64(k)), build.usize) :
                                       k \in fn.n..(upto - 1) }]
    /\ UNCHANGED <<phase, vs, sha256, build, newArgs, lastOp, lastArg, ret, stopCalled,
                   lastRead, fed, results, peer, inflight>>

SpecRange == InitRange /\ [][CollectSeed]_vars

-----------------------------------------------------------------------------
(* The match test applied to one text: the MatchType is built as new builds it,   *)
(* the text is folded and tested as search_batch does.                            *)

\* 'A', 'B', 'a'
MatchAlphabet == {65, 66, 97}

TextsUpTo(n) == UNION { [1..k -> MatchAlphabet] : k \in 0..n }

\* "ABCD" and "abcd" besides
MatchTexts == TextsUpTo(MaxTextLen) \cup { <<65, 66, 67, 68>>, <<97, 98, 99, 100>> }

MatchPatterns == {None} \cup { Some(t) : t \in TextsUpTo(MaxPatternLen) }

InitMatch ==
    /\ NotConstructed
    /\ build = [usize |-> 4, overflow_checks |-> FALSE]
    /\ fn \in [text : MatchTexts, prefix : MatchPatterns, suffix : MatchPatterns,
                case_insensitive : BOOLEAN, matches : {None}]

TestMatch ==
    /\ fn.matches = None
    /\ fn' = [fn EXCEPT !.matches =
                 Some(Matches(NewMatchType(fn.prefix, fn.suffix, fn.case_insensitive),
                              maybe_bs58_aware_lowercase(fn.text, fn.case_insensitive)))]
    /\ UNCHANGED <<phase, vs, sha256, build, newArgs, lastOp, lastArg, ret, stopCalled,
                   lastRead, fed, results, peer, inflight>>

SpecMatch == InitMatch /\ [][TestMatch]_vars

-----------------------------------------------------------------------------
(* The properties, stated independently of the operators above *)

\* t starts with p: t is p followed by something
StartsWith(t, p) == \E k \in 0..Len(t) : p = [i \in 1..k |-> t[i]]

\* t ends with s: t is something followed by s
EndsWith(t, s) == \E k \in 0..Len(t) : s = [i \in 1..k |-> t[Len(t) - k + i]]

\* text with every upper-case letter A-Z replaced by its lower-case letter
Folded(t) == [i \in 1..Len(t) |-> IF t[i] \in 65..90 THEN t[i] + 32 ELSE t[i]]

\* the match semantics of a MatchSpec on a text that was folded already
Satisfies(match_type, text) ==
    /\ match_type.kind \in {"Prefix", "Both"} => StartsWith(text, match_type.prefix)
    /\ match_type.kind \in {"Suffix", "Both"} => EndsWith(text, match_type.suffix)

\* the last operation was a search_batch call that returned
Returned == lastOp = "search_batch" /\ phase = "ready"

-----------------------------------------------------------------------------
(* C1 *)

\* C1: whenever search_batch returns a Result, (d) its attempts is what attempts()
\* reports right after the call, and for the counter c = count_offset + attempts - 1
\* (in u64 arithmetic): (c) its seed is the seed of c, (b) its address is the encoding
\* of the candidate derived from that seed, (a) that candidate, folded when the
\* searcher is case-insensitive, satisfies the searcher's match spec.
C1_ResultIsTheMatchedCandidate ==
    (Returned /\ IsSome(ret)) =>
        LET r == Unwrap(ret) IN
        /\ r.attempts = attempts(vs)
        /\ r.attempts >= 1
        /\ LET c == CounterAt(r.attempts - 1, vs.count_offset)
               seed == SeedOf(c, build.usize)
               candidate == encode_32(sha256[<<vs.base_pubkey, seed, vs.owner_pubkey>>])
           IN  /\ r.seed = seed
               /\ r.address = candidate
               /\ Satisfies(vs.match_type,
                            IF vs.case_insensitive THEN Folded(candidate) ELSE candidate)

\* a case-insensitive searcher returned its second candidate, after an earlier call
\* had tested the first
C1_Witness ==
    /\ Returned /\ IsSome(ret)
    /\ Unwrap(ret).attempts = 2
    /\ lastArg = 1
    /\ vs.case_insensitive
    /\ vs.match_type.kind = "Both"

-----------------------------------------------------------------------------
(* C2 *)

\* C2: once stop() has been called, every search_batch(n), for every n, returns no
\* result and leaves attempts() as it was.
C2_CancellationLatch ==
    [][(stopCalled /\ lastOp' = "search_batch")
          => (phase' = "ready" /\ ret' = None /\ attempts(vs') = attempts(vs))]_vars

\* a search_batch(2) call on a stopped searcher that had tested one candidate and
\* whose match spec matches everything
C2_Witness ==
    /\ Returned /\ stopCalled
    /\ lastArg = 2
    /\ vs.count = 1
    /\ vs.match_type = Prefix(<<>>)

-----------------------------------------------------------------------------
(* C5 *)

\* C5: search_batch(0) returns no result and leaves count unchanged, in every state.
C5_ZeroBatchNoOp ==
    [][(lastOp' = "search_batch" /\ lastArg' = 0)
          => (phase' = "ready" /\ ret' = None /\ attempts(vs') = attempts(vs))]_vars

\* search_batch(0) was called on an active searcher that matches everything
C5_Witness ==
    /\ Returned /\ lastArg = 0
    /\ ~vs.should_exit
    /\ vs.count = 1
    /\ vs.match_type = Prefix(<<>>)

-----------------------------------------------------------------------------
(* C3 *)

\* C3: VanitySearcher::new with a base key or an owner key that is not 32 bytes long
\* returns an InvalidKeyLength error to its caller (it does not panic) and creates no
\* Searcher.
C3_InvalidKeyLengthReturned ==
    (lastOp = "new"
     /\ (Len(newArgs.base_pubkey) # PUBKEY_LEN \/ Len(newArgs.owner_pubkey) # PUBKEY_LEN))
        => phase \notin {"ready", "panicked"}

-----------------------------------------------------------------------------
(* C8 *)

\* C8: on an active searcher constructed with neither prefix nor suffix, every
\* search_batch(n) with n >= 1 returns a Result after testing exactly one candidate:
\* attempts grows by exactly 1 and the Result carries the new value.
C8_DefaultMatchesFirstCandidate ==
    [][(/\ phase = "ready"
        /\ newArgs.prefix = None /\ newArgs.suffix = None
        /\ ~vs.should_exit
        /\ lastOp' = "search_batch" /\ lastArg' >= 1)
          => (/\ phase' = "ready"
              /\ IsSome(ret')
              /\ Unwrap(ret').attempts = attempts(vs) + 1
              /\ attempts(vs') = attempts(vs) + 1)]_vars

-----------------------------------------------------------------------------
(* C9 *)

\* C9: a new Searcher starts with should_exit = false; should_exit never goes back to
\* false; it changes only in a stop() call, which sets it; stop() on a stopped
\* Searcher changes nothing of the Searcher.
C9_StopLatchOneWay ==
    /\ []((lastOp = "new" /\ phase = "ready") => ~vs.should_exit)
    /\ [][/\ vs.should_exit => vs'.should_exit
          /\ vs'.should_exit # vs.should_exit => lastOp' = "stop"
          /\ lastOp' = "stop" => vs'.should_exit
          /\ (vs.should_exit /\ lastOp' = "stop") => (vs' = vs /\ phase' = phase)]_vars

\* search_batch was called on a stopped searcher that had tested a candidate
C9_Witness ==
    /\ Returned /\ lastArg >= 1
    /\ vs.should_exit /\ stopCalled
    /\ vs.count >= 1

-----------------------------------------------------------------------------
(* C10 *)

\* C10: count is 0 after construction and never decreases; attempts() returns count;
\* an attempts() read is never smaller than the read before it.
C10_AttemptsMonotonic ==
    /\ []((lastOp = "new" /\ phase = "ready") => vs.count = 0)
    /\ [](lastOp = "attempts" => lastRead = Some(vs.count))
    /\ [][vs'.count >= vs.count]_vars
    /\ [][(IsSome(lastRead) /\ IsSome(lastRead'))
             => Unwrap(lastRead') >= Unwrap(lastRead)]_vars

\* attempts() was read after two candidates were tested
C10_Witness == lastOp = "attempts" /\ lastRead = Some(2) /\ vs.count = 2

-----------------------------------------------------------------------------
(* C4 *)

\* the candidate of the k-th counter from count_offset on
CandidateAt(k) ==
    encode_32(sha256[<<vs.base_pubkey,
                       SeedOf(CounterAt(k, vs.count_offset), build.usize),
                       vs.owner_pubkey>>])

\* a searcher with a case-sensitive prefix and count_offset = 0 was just constructed,
\* and some counter the model reaches yields a candidate that starts with the prefix
C4_Searching ==
    /\ phase = "ready" /\ lastOp = "new"
    /\ IsSome(newArgs.prefix) /\ newArgs.suffix = None /\ ~newArgs.case_insensitive
    /\ newArgs.count_offset = ToU64(0)
    /\ \E k \in 0..(MaxCount - 1) : StartsWith(CandidateAt(k), Unwrap(newArgs.prefix))

\* search_batch returned a Result whose address starts with the prefix
C4_Found ==
    /\ Returned /\ IsSome(ret) /\ IsSome(newArgs.prefix)
    /\ StartsWith(Unwrap(ret).address, Unwrap(newArgs.prefix))

-----------------------------------------------------------------------------
(* C6 *)

\* the digits and the letters, without the excluded characters
AlphanumericWithout(excluded) == ((48..57) \cup (65..90) \cup (97..122)) \ excluded

\* C6 as stated: every byte of a generated seed is one of the 58 alphanumeric
\* symbols that are left without '0', 'O', 'I' and 'l'.
C6_SeedInAlphabetOf58 ==
    IsSome(fn.seed) =>
        /\ Len(Unwrap(fn.seed)) = 16
        /\ \A i \in 1..16 : Unwrap(fn.seed)[i] \in AlphanumericWithout({48, 79, 73, 108})

\* C6 amended: every byte of a generated seed is one of the 59 alphanumeric symbols
\* that are left without 'O', 'I' and 'l'; '0' is one of them.
C6_SeedInAlphabetOf59 ==
    IsSome(fn.seed) =>
        /\ Len(Unwrap(fn.seed)) = 16
        /\ \A i \in 1..16 : Unwrap(fn.seed)[i] \in AlphanumericWithout({79, 73, 108})
        /\ Cardinality(AlphanumericWithout({79, 73, 108})) = 59

\* the seed of counter 49 was generated: its first byte is '0'
C6_Witness ==
    /\ IsSome(fn.seed)
    /\ fn.counter = ToU64(49)
    /\ Unwrap(fn.seed)[1] = 48

-----------------------------------------------------------------------------
(* C7 *)

\* C7: the text matches iff it starts with the prefix (when one is given) and ends
\* with the suffix (when one is given); in case-insensitive mode the comparison is
\* between the lower-cased text and the lower-cased patterns, otherwise between the
\* text and the patterns as supplied.
C7_MatchSemantics ==
    IsSome(fn.matches) =>
        LET fold(t) == IF fn.case_insensitive THEN Folded(t) ELSE t IN
        Unwrap(fn.matches) =
            (/\ IsSome(fn.prefix) => StartsWith(fold(fn.text), fold(Unwrap(fn.prefix)))
             /\ IsSome(fn.suffix) => EndsWith(fold(fn.text), fold(Unwrap(fn.suffix))))

\* the examples of the claim: prefix "AB" matches "ABCD" and not "abcd" when
\* case-sensitive, and matches "abcd" when case-insensitive
C7_Examples ==
    (IsSome(fn.matches) /\ fn.prefix = Some(<<65, 66>>) /\ fn.suffix = None) =>
        /\ (fn.text = <<65, 66, 67, 68>>) => Unwrap(fn.matches)
        /\ (fn.text = <<97, 98, 99, 100>>) => (Unwrap(fn.matches) = fn.case_insensitive)

\* C7, with its examples
C7_MatchSemanticsAndExamples == C7_MatchSemantics /\ C7_Examples

\* "abcd" was tested against the prefix "AB" in case-insensitive mode, and matched
C7_Witness ==
    /\ IsSome(fn.matches) /\ Unwrap(fn.matches)
    /\ fn.text = <<97, 98, 99, 100>>
    /\ fn.prefix = Some(<<65, 66>>) /\ fn.suffix = None
    /\ fn.case_insensitive

-----------------------------------------------------------------------------
(* C11 *)

\* C11: search_batch on a constructed Searcher never aborts: for every count_offset
\* and every count, also when count + count_offset exceeds 2^64 - 1, the call returns
\* (a Result or no result), and the counters it passes to the seed generator are
\* (count + count_offset) mod 2^64.
C11_SearchNeverAborts ==
    /\ lastOp = "search_batch" => phase = "ready"
    /\ \A i \in 1..Len(fed) : fed[i] = WrappingAdd(ToU64(i - 1), newArgs.count_offset)

-----------------------------------------------------------------------------
(* C12 *)

\* C12: the seeds of the first n counters of a range, n <= RangeLen, starting at 0
\* or at 10^9, are n different seeds: no two counters of the range have the same seed.
C12_NoCollisionInRange == Cardinality(fn.seeds) = fn.n

\* the seeds of the first 500 counters from 10^9 on were collected, in two steps
C12_Witness == fn.start = ToU64(1000000000) /\ fn.n = 500 /\ Cardinality(fn.seeds) = 500

-----------------------------------------------------------------------------
(* C13 *)

\* a < b, as 64-bit numbers
U64Less(a, b) ==
    \E k \in 1..U64_BYTES : a[k] < b[k] /\ \A j \in (k + 1)..U64_BYTES : a[j] = b[j]

\* the 64-bit numbers a and b differ by more than n
DifferByMoreThan(a, b, n) ==
    LET lo == IF U64Less(a, b) THEN a ELSE b
        hi == IF U64Less(a, b) THEN b ELSE a
    IN  ~AddOverflows(lo, ToU64(n)) /\ U64Less(WrappingAdd(lo, ToU64(n)), hi)

\* the count_offsets of the two searchers differ by more than the number of candidates
\* either of them has tested
FarApart ==
    /\ phase # "none" /\ peer.phase # "none"
    /\ DifferByMoreThan(vs.count_offset, peer.vs.count_offset, vs.count)
    /\ DifferByMoreThan(vs.count_offset, peer.vs.count_offset, peer.vs.count)

\* no Result of one searcher has the seed of a Result of the other
NoSharedSeed ==
    \A i \in 1..Len(results), j \in 1..Len(peer.results) :
        results[i].seed # peer.results[j].seed

\* the counters count_offset .. count_offset + count - 1 of searcher s stay below 2^64
NoWrap(s) == s.count = 0 \/ ~AddOverflows(s.count_offset, ToU64(s.count - 1))

\* C13 as stated: two searchers with the same keys and prefix whose count_offsets
\* differ by more than the number of candidates either has tested never both report a
\* match with the same seed.
C13_PartitionsNeverShareASeed == FarApart => NoSharedSeed

\* C13 amended: ... provided also that neither searcher's counters
\* count_offset .. count_offset + count - 1 pass 2^64 - 1.
C13_PartitionsBelowTheWrapNeverShareASeed ==
    (FarApart /\ NoWrap(vs) /\ NoWrap(peer.vs)) => NoSharedSeed

\* both searchers reported a match, one from counter 0 on, the other at 2^64 - 1
C13_Witness ==
    /\ FarApart /\ NoWrap(vs) /\ NoWrap(peer.vs)
    /\ Len(results) = 2 /\ Len(peer.results) = 1
    /\ vs.count_offset = ToU64(0)
    /\ peer.vs.count_offset = <<255, 255, 255, 255, 255, 255, 255, 255>>

-----------------------------------------------------------------------------
(* C14 *)

\* x + 1 as a 64-bit number: the lowest byte that is not 255 is incremented, the
\* bytes below it become 0
U64Succ(x) ==
    [i \in 1..U64_BYTES |->
        IF \A j \in 1..i : x[j] = 255 THEN 0
        ELSE IF \A j \in 1..(i - 1) : x[j] = 255 THEN x[i] + 1
        ELSE x[i]]

\* the candidate derived from counter c matches the searcher's match spec
MatchesAt(c) ==
    LET candidate == encode_32(sha256[<<vs.base_pubkey, SeedOf(c, build.usize),
                                        vs.owner_pubkey>>])
    IN  Satisfies(vs.match_type,
                  IF vs.case_insensitive THEN Folded(candidate) ELSE candidate)

\* C14: whatever the batch sizes of the calls made so far, the counters passed to the
\* seed generator are count_offset, count_offset + 1, ... (64-bit), one per counted
\* candidate, without gap and without repetition; the Results returned so far are,
\* in order, those of exactly the matching counters among them.
C14_CountersInOrder ==
    /\ Len(fed) = vs.count
    /\ Len(fed) >= 1 => fed[1] = vs.count_offset
    /\ \A i \in 1..(Len(fed) - 1) : fed[i + 1] = U64Succ(fed[i])
    /\ \A i, j \in 1..Len(fed) : i # j => fed[i] # fed[j]
    /\ \A i \in 1..(Len(results) - 1) : results[i].attempts < results[i + 1].attempts
    /\ { results[i].attempts : i \in 1..Len(results) }
           = { k \in 1..Len(fed) : MatchesAt(fed[k]) }
    /\ \A i \in 1..Len(results) :
           results[i].seed = SeedOf(fed[results[i].attempts], build.usize)

\* the first call returned the match of the first counter; the next call,
\* search_batch(1), tested the counter right after it, which did not match
C14_Witness ==
    /\ Returned /\ lastArg = 1 /\ ret = None
    /\ Len(fed) = 2
    /\ Len(results) = 1 /\ results[1].attempts = 1
    /\ ~vs.should_exit

-----------------------------------------------------------------------------
(* C15 *)

\* C15: a search_batch(b) call on an active searcher that returns no result has
\* tested and counted exactly b candidates, none of which matches; a call that
\* returns a Result has tested and counted exactly k candidates, 1 <= k <= b, where
\* the k-th is the first that matches, and the Result carries the new count.
C15_CountedOncePerCandidate ==
    [][(/\ phase = "ready" /\ ~vs.should_exit
        /\ lastOp' = "search_batch" /\ phase' = "ready")
          => LET tested == vs'.count - vs.count
                 candidate(j) == fed'[Len(fed) + j]
             IN  /\ Len(fed') = Len(fed) + tested
                 /\ \A j \in 1..(tested - 1) : ~MatchesAt(candidate(j))
                 /\ ret' = None =>
                        /\ tested = lastArg'
                        /\ tested >= 1 => ~MatchesAt(candidate(tested))
                 /\ IsSome(ret') =>
                        /\ 1 <= tested /\ tested <= lastArg'
                        /\ MatchesAt(candidate(tested))
                        /\ Unwrap(ret').attempts = vs'.count]_vars

\* a case-insensitive search_batch(2) returned the second candidate of the batch,
\* the first one did not match
C15_Witness ==
    /\ Returned /\ lastArg = 2 /\ IsSome(ret)
    /\ Len(fed) = 2 /\ vs.count = 2
    /\ Len(results) = 1
    /\ vs.case_insensitive

-----------------------------------------------------------------------------
(* C16 *)

\* C16: with search_batch taken one candidate at a time and stop() free to take
\* effect between two candidates, no candidate is started while should_exit is set:
\* the step of the call that follows is the return of no result, nothing is derived
\* or counted in it, and count does not change any more once should_exit is set (so
\* it grows by at most 1 after stop()).
C16_StopSeenBeforeEachCandidate ==
    /\ [][(vs.should_exit /\ inflight.active /\ lastOp' # "stop")
             => (/\ lastOp' = "search_batch" /\ ~inflight'.active
                 /\ phase' = "ready"
                 /\ ret' = None
                 /\ fed' = fed /\ results' = results)]_vars
    /\ [][vs.should_exit => vs'.count = vs.count]_vars

\* stop() took effect after the first candidate of a search_batch(2) call: the call
\* returned no result with one iteration left and one candidate counted
C16_Witness ==
    /\ lastOp = "search_batch" /\ ~inflight.active
    /\ inflight.batch_size = 2 /\ inflight.left = 1
    /\ vs.should_exit /\ stopCalled
    /\ ret = None /\ results = <<>>
    /\ vs.count = 1 /\ Len(fed) = 1

-----------------------------------------------------------------------------
(* C17 *)

\* the searcher's configuration: everything but count and should_exit
Configuration(s) ==
    <<s.base_pubkey, s.owner_pubkey, s.match_type, s.case_insensitive, s.count_offset>>

\* the pattern as the searcher holds it
Held(pattern) ==
    IF ~IsSome(pattern) THEN <<>>
    ELSE IF newArgs.case_insensitive THEN Folded(Unwrap(pattern))
    ELSE Unwrap(pattern)

\* C17: search_batch changes only count, stop() changes only should_exit, attempts()
\* changes nothing of the searcher; the keys, the match spec, the case flag and
\* count_offset have their construction-time values in every reachable state.
C17_FrameConditions ==
    /\ [][lastOp' = "search_batch"
             => (Configuration(vs') = Configuration(vs)
                 /\ vs'.should_exit = vs.should_exit)]_vars
    /\ [][lastOp' = "stop"
             => (Configuration(vs') = Configuration(vs) /\ vs'.count = vs.count)]_vars
    /\ [][lastOp' = "attempts" => vs' = vs]_vars
    /\ [](phase = "ready" =>
             /\ vs.base_pubkey = newArgs.base_pubkey
             /\ vs.owner_pubkey = newArgs.owner_pubkey
             /\ vs.count_offset = newArgs.count_offset
             /\ vs.case_insensitive = newArgs.case_insensitive
             /\ vs.match_type.prefix = Held(newArgs.prefix)
             /\ vs.match_type.suffix = Held(newArgs.suffix)
             /\ vs.match_type.kind =
                    IF IsSome(newArgs.prefix) /\ IsSome(newArgs.suffix) THEN "Both"
                    ELSE IF IsSome(newArgs.suffix) THEN "Suffix"
                    ELSE "Prefix")

\* attempts() was read on a stopped case-insensitive searcher with a prefix, a suffix
\* and count_offset 2^32 - 1 that had tested two candidates
C17_Witness ==
    /\ lastOp = "attempts" /\ phase = "ready"
    /\ stopCalled /\ vs.should_exit
    /\ vs.count = 2
    /\ vs.match_type = Both(<<97, 98>>, <<98>>)
    /\ vs.count_offset = <<255, 255, 255, 255, 0, 0, 0, 0>>

-----------------------------------------------------------------------------
(* C18 *)

RECURSIVE PowerOf256(_, _)
\* 256^k mod m
PowerOf256(k, m) == IF k = 0 THEN 1 % m ELSE (256 * PowerOf256(k - 1, m)) % m

RECURSIVE WindowSum(_, _, _, _)
\* (x[from] + 256 x[from + 1] + ... + 256^(width - 1) x[from + width - 1]) mod m,
\* with the bytes beyond the eighth taken as 0
WindowSum(x, from, width, m) ==
    IF width = 0 THEN 0
    ELSE LET k == width - 1
             byte == IF from + k <= U64_BYTES THEN x[from + k] ELSE 0
         IN  (byte * PowerOf256(k, m) + WindowSum(x, from, k, m)) % m

\* the seed whose byte i is the alphabet symbol at index
\* ((state1 >> 8i) taken on `width` bytes) mod m, and whose byte i + 8 is the same of
\* state2 = (n * 0x9E3779B97F4A7C15) mod 2^64
SeedByFormula(n, width, m) ==
    LET state2 == WrappingMul(n, GoldenRatio)
    IN  [j \in 1..16 |->
            IF j <= 8 THEN ALPHANUMERIC_CHARS[WindowSum(n, j, width, m) + 1]
            ELSE ALPHANUMERIC_CHARS[WindowSum(state2, j - 8, width, m) + 1]]

\* C18 as stated: the index of every seed byte is the full 64-bit shifted state
\* mod 58.
C18_IndexIsState64Mod58 ==
    IsSome(fn.seed) => Unwrap(fn.seed) = SeedByFormula(fn.counter, U64_BYTES, 58)

\* C18 amended: the index of every seed byte is the shifted state, cast to usize (its
\* low 32 bits on wasm32, all 64 bits on a 64-bit target), mod 59, the number of
\* symbols of the alphabet.
C18_IndexIsStateAsUsizeMod59 ==
    IsSome(fn.seed) => Unwrap(fn.seed) = SeedByFormula(fn.counter, build.usize, 59)

\* the seed of counter 2^32 + 49 was generated on wasm32: its first byte is '0', the
\* symbol at index 49, and not the symbol at index (2^32 + 49) mod 59
C18_Witness ==
    /\ IsSome(fn.seed)
    /\ build.usize = 4
    /\ fn.counter = <<49, 0, 0, 0, 1, 0, 0, 0>>
    /\ Unwrap(fn.seed)[1] = 48
    /\ Unwrap(fn.seed) # SeedByFormula(fn.counter, U64_BYTES, 59)

-----------------------------------------------------------------------------
(* C19 *)

\* C19: the address of a returned Result is the base58 encoding of the candidate key
\* as the encoder gave it, never its lower-cased form. In case-insensitive mode the
\* lower-cased address starts (ends) with the lower-cased pattern the caller supplied;
\* in case-sensitive mode the address itself starts (ends) with the supplied pattern.
C19_AddressIsNotFolded ==
    (Returned /\ IsSome(ret)) =>
        LET address == Unwrap(ret).address
            prefix == newArgs.prefix
            suffix == newArgs.suffix
        IN  /\ address = CandidateAt(Unwrap(ret).attempts - 1)
            /\ newArgs.case_insensitive =>
                   /\ IsSome(prefix) => StartsWith(Folded(address), Folded(Unwrap(prefix)))
                   /\ IsSome(suffix) => EndsWith(Folded(address), Folded(Unwrap(suffix)))
            /\ ~newArgs.case_insensitive =>
                   /\ IsSome(prefix) => StartsWith(address, Unwrap(prefix))
                   /\ IsSome(suffix) => EndsWith(address, Unwrap(suffix))

\* a case-insensitive searcher with the prefix "AB" returned an address that does not
\* start with "AB", and that is not in lower case throughout
C19_Witness ==
    /\ Returned /\ IsSome(ret)
    /\ newArgs.case_insensitive
    /\ newArgs.prefix = Some(<<65, 66>>)
    /\ ~StartsWith(Unwrap(ret).address, <<65, 66>>)
    /\ Len(results) = 2
    /\ \E i \in 1..2 : results[i].address # Folded(results[i].address)

====
